---- MODULE Spec2Model ----
(***************************************************************************)
(* Model of software/skiptrap/check_skiptrap.py: the skiptrap commit-log   *)
(* checker.  main() is a sequential pipeline; the model follows it stage   *)
(* by stage (pc), with the files it reads (nm table, objdump listing) and  *)
(* the simulator it launches as the environment.                           *)
(*                                                                         *)
(* Representation notes                                                    *)
(*  - Python None is -1: every address, pc and index is non-negative.      *)
(*  - 32-bit data words exceed TLC's integer range, so a word 0xHHHHLLLL   *)
(*    is the pair <<0xHHHH, 0xLLLL>>; the code only compares words for     *)
(*    equality, which the pairs preserve.                                  *)
(*  - A mnemonic is the pair <<compressed, base>>, the text being          *)
(*    "c." \o base when compressed and base otherwise; str.startswith("c.")*)
(*    is the first component.                                              *)
(*  - A text line is a record whose kind says which regular expression of  *)
(*    the code matches it; the captured groups are its fields.             *)
(***************************************************************************)
EXTENDS Integers, Sequences, FiniteSets, TLC

None == -1

\* How many deviations from the nominal run an environment may carry.
MaxFaults == 2
\* Longest listing given to the scanner when it is checked on its own.
MaxLines == 3

Word(hi, lo) == <<hi, lo>>

Min(S) == CHOOSE x \in S : \A y \in S : x <= y

RemoveAt(s, i) == SubSeq(s, 1, i - 1) \o SubSeq(s, i + 1, Len(s))
InsertAt(s, i, x) == SubSeq(s, 1, i - 1) \o <<x>> \o SubSeq(s, i, Len(s))

(***************************************************************************)
(* parse_nm: the symbol table.                                             *)
(***************************************************************************)
\* A line of the nm file: parts = number of whitespace-separated tokens,
\* hex = whether parts[0] is valid hexadecimal, addr = its value.
NmLine(a, n) == [parts |-> 3, hex |-> TRUE, addr |-> a, name |-> n]

\* line 15-21: a line counts when it has >= 3 parts and int(.,16) succeeds.
NmLineOk(l) == l.parts >= 3 /\ l.hex

\* lines 10-22: name -> address, the last good line of a name wins;
\* a name without a good line maps to None (dict key absent).
parse_nm(nm) ==
    [n \in {nm[i].name : i \in 1..Len(nm)} |->
        LET S == {i \in 1..Len(nm) : nm[i].name = n /\ NmLineOk(nm[i])}
        IN IF S = {} THEN None ELSE nm[CHOOSE i \in S : \A j \in S : j <= i].addr]

\* syms.get(name): None when the key is absent.
SymGet(syms, n) == IF n \in DOMAIN syms THEN syms[n] ELSE None

\* lines 149-152: syms["..."] raises KeyError for an absent key.
DataSyms == {"tohost", "g_data0", "g_data1", "g_buf"}
KeyErrorRaised(syms) == \E n \in DataSyms : SymGet(syms, n) = None

\* lines 153-166
PcLabels == {"L_SW_GDATA0", "L_SW_GDATA1", "L_SW_GBUF", "L_SH_GBUF_P2",
             "L_SB_GBUF_P1", "L_SW_TOHOST", "L_MISALIGNED_SW",
             "L_LI_T0_1", "L_LI_T0", "L_LI_T1", "L_LI_T2", "L_LI_T3"}
MkPcs(syms) == [l \in PcLabels |-> SymGet(syms, l)]

\* lines 169-176: EXP, 0-based in the code, 1-based here (EXP[idx+1]).
DATA_GDATA0 == Word(4660, 22136)      \* 0x12345678
DATA_GDATA1 == Word(43981, 61185)     \* 0xABCDEF01
DATA_GBUF_W == Word(4386, 13124)      \* 0x11223344
DATA_GBUF_H == Word(13124, 4386)      \* 0x33441122
DATA_GBUF_B == Word(8755, 17425)      \* 0x22334411
DATA_EXIT   == Word(0, 1)             \* 0x1
MASK_W == 15
MASK_H == 12
MASK_B == 2

MkEvent(p, a, d, m) == [pc |-> p, addr |-> a, data |-> d, mask |-> m]

MkEXP(syms, pcs) ==
    << MkEvent(pcs["L_SW_GDATA0"],  syms["g_data0"],   DATA_GDATA0, MASK_W),
       MkEvent(pcs["L_SW_GDATA1"],  syms["g_data1"],   DATA_GDATA1, MASK_W),
       MkEvent(pcs["L_SW_GBUF"],    syms["g_buf"] + 0, DATA_GBUF_W, MASK_W),
       MkEvent(pcs["L_SH_GBUF_P2"], syms["g_buf"] + 0, DATA_GBUF_H, MASK_H),
       MkEvent(pcs["L_SB_GBUF_P1"], syms["g_buf"] + 0, DATA_GBUF_B, MASK_B),
       MkEvent(pcs["L_SW_TOHOST"],  syms["tohost"],    DATA_EXIT,   MASK_W) >>

(***************************************************************************)
(* parse_memw / parse_reg: the log is a sequence of lines; tag says which  *)
(* pattern (if any) the line matches.                                      *)
(***************************************************************************)
MemwLine(w) == [tag |-> "MEMW", pc |-> w.pc, addr |-> w.addr, data |-> w.data,
                mask |-> w.mask]
RegLine(r) == [tag |-> "REG", pc |-> r.pc, rd |-> r.rd, val |-> r.val]
TrapLine == [tag |-> "TRAP"]

RECURSIVE parse_memw(_)
parse_memw(log) ==
    IF log = <<>> THEN <<>>
    ELSE LET l == Head(log)
         IN (IF l.tag = "MEMW"
             THEN << MkEvent(l.pc, l.addr, l.data, l.mask) >>
             ELSE <<>>) \o parse_memw(Tail(log))

RECURSIVE parse_reg(_)
parse_reg(log) ==
    IF log = <<>> THEN <<>>
    ELSE LET l == Head(log)
         IN (IF l.tag = "REG"
             THEN << [pc |-> l.pc, rd |-> l.rd, val |-> l.val] >>
             ELSE <<>>) \o parse_reg(Tail(log))

(***************************************************************************)
(* Memory-write verification, lines 189-222.                               *)
(***************************************************************************)
Err(k, r) == [kind |-> k, ref |-> r]

\* line 197: the offsets, in the order tried.
OffsetsShort == <<0, 2, 4, 6>>
OffsetsOdd == <<0, 1, 2, 4, 6, 8>>
Offsets == <<0, 2, 4, 6, 8>>

\* lines 199-200: the condition of the generator.
MatchesAt(w, e, off) ==
    w.pc = e.pc + off /\ w.addr = e.addr /\ w.mask = e.mask /\ w.data = e.data

\* lines 198-200: next(i for i, w in enumerate(got) if ..., None), 0-based.
Cand(got, e, off) ==
    LET S == {i \in 1..Len(got) : MatchesAt(got[i], e, off)}
    IN IF S = {} THEN None ELSE Min(S) - 1

\* lines 196-204: first offset, in order, at which a candidate exists.
RECURSIVE FindFrom(_, _, _)
FindFrom(got, e, k) ==
    IF k > Len(Offsets) THEN None
    ELSE LET c == Cand(got, e, Offsets[k])
         IN IF c # None THEN c ELSE FindFrom(got, e, k + 1)

\* lines 191-208: the loop over EXP; st = [errors, positions].
RECURSIVE MatchLoop(_, _, _, _)
MatchLoop(EXP, got, idx, st) ==
    IF idx >= Len(EXP) THEN st
    ELSE LET e == EXP[idx + 1]
         IN IF e.pc = None
            THEN MatchLoop(EXP, got, idx + 1,
                   [st EXCEPT !.errors = Append(@, Err("SymbolNotFound", e))])
            ELSE LET c == FindFrom(got, e, 1)
                 IN IF c # None
                    THEN MatchLoop(EXP, got, idx + 1,
                           [st EXCEPT !.positions = (idx :> c) @@ @])
                    ELSE MatchLoop(EXP, got, idx + 1,
                           [st EXCEPT !.errors = Append(@, Err("MissingWrite", e))])

\* line 212
OutOfOrder(positions, i) == positions[i] >= positions[i + 1]

\* lines 210-213
RECURSIVE OrderLoop(_, _, _)
OrderLoop(n, positions, i) ==
    IF i >= n - 1 THEN <<>>
    ELSE (IF OutOfOrder(positions, i)
          THEN << Err("OrderMismatch", i) >> ELSE <<>>)
         \o OrderLoop(n, positions, i + 1)

OrderErrorsShort(EXP, errors, positions) ==
    IF errors = <<>> THEN OrderLoop(Len(EXP) - 1, positions, 0) ELSE <<>>
OrderErrors(EXP, errors, positions) ==
    IF errors = <<>> THEN OrderLoop(Len(EXP), positions, 0) ELSE <<>>

\* line 216
WritesG0(got, g_data0) == SelectSeq(got, LAMBDA w : w.addr = g_data0)

\* lines 217-218
UniqueErrorsAtLeastOne(got, g_data0) ==
    LET ws == WritesG0(got, g_data0)
    IN IF Len(ws) = 0 \/ ~(ws[1].data = DATA_GDATA0 /\ ws[1].mask = MASK_W)
       THEN << Err("SpuriousWrite", Len(ws)) >> ELSE <<>>
UniqueErrors(got, g_data0) ==
    LET ws == WritesG0(got, g_data0)
    IN IF Len(ws) # 1 \/ ~(ws[1].data = DATA_GDATA0 /\ ws[1].mask = MASK_W)
       THEN << Err("SpuriousWrite", Len(ws)) >> ELSE <<>>

\* lines 221-222
NegativeErrorsSkew(got, pcs) ==
    IF pcs["L_MISALIGNED_SW"] # None
       /\ \E i \in 1..Len(got) :
            got[i].pc = pcs["L_MISALIGNED_SW"]
            /\ ~(got[i].mask = MASK_W /\ got[i].data = DATA_GDATA0)
    THEN << Err("UnexpectedTrapWrite", None) >> ELSE <<>>
NegativeErrors(got, pcs) ==
    IF pcs["L_MISALIGNED_SW"] # None
       /\ \E i \in 1..Len(got) : got[i].pc = pcs["L_MISALIGNED_SW"]
    THEN << Err("UnexpectedTrapWrite", None) >> ELSE <<>>

(***************************************************************************)
(* parse_objdump_for_final_reg_pc, lines 78-123.                           *)
(* A listing line is [kind |-> "label", addr, name] when label_re /        *)
(* next_label_re match it, [kind |-> "insn", pc, mnem, op0] when insn_re   *)
(* matches it (op0 = "" when the operand list is empty), and               *)
(* [kind |-> "other"] otherwise.  The three patterns exclude one another:  *)
(* a header has no ':' after its address, an instruction line has.         *)
(***************************************************************************)
LabelLine(a, n) == [kind |-> "label", addr |-> a, name |-> n]
Insn(p, m, o) == [kind |-> "insn", pc |-> p, mnem |-> m, op0 |-> o]
OtherLine == [kind |-> "other"]
M(base) == <<FALSE, base>>
CM(base) == <<TRUE, base>>

\* lines 89-94
write_mnems ==
    {"addi", "add", "sub", "lui", "ori", "xori", "andi",
     "slli", "srli", "srai", "auipc", "and", "or", "xor",
     "sll", "srl", "sra", "slti", "sltiu", "slt", "sltu",
     "jal", "jalr", "csrrw", "csrrs", "csrrc", "csrrwi", "csrrsi", "csrrci", "li"}

\* line 119: the tuple of excluded mnemonics.
StoreBranchMnems == {"sb", "sh", "sw", "beq", "bne", "blt", "bge", "bltu", "bgeu"}

\* mnem in <set of plain mnemonic texts>
MnemIn(m, S) == ~m[1] /\ m[2] \in S
\* mnem.startswith("c.")
StartsWithC(m) == m[1]

\* f"x{rd_num}" for the register numbers of the model
XName(rd) ==
    CASE rd = 5 -> "x5" [] rd = 6 -> "x6" [] rd = 7 -> "x7"
      [] rd = 10 -> "x10" [] rd = 28 -> "x28" [] OTHER -> "x?"

\* line 117-118: abi_map.get(rd_num) == op0
AbiIs(rd, op0) ==
    \/ rd = 5 /\ op0 = "t0"
    \/ rd = 6 /\ op0 = "t1"
    \/ rd = 7 /\ op0 = "t2"
    \/ rd = 28 /\ op0 = "t3"

ok_rd(rd, op0) == op0 = XName(rd) \/ AbiIs(rd, op0)

\* lines 108-121: does this line set last_pc?
IsCandidate(l, rd) ==
    /\ l.kind = "insn"
    /\ l.op0 # ""
    /\ ok_rd(rd, l.op0)
    /\ ~MnemIn(l.mnem, StoreBranchMnems)
    /\ (MnemIn(l.mnem, write_mnems) \/ StartsWithC(l.mnem))

\* lines 95-101: index (0-based) of the line after the first header of the
\* label, -1 when there is none.
ScanStart(lines, label) ==
    LET S == {i \in 1..Len(lines) :
                lines[i].kind = "label" /\ lines[i].name = label}
    IN IF S = {} THEN -1 ELSE Min(S)

\* lines 102-123: the while loop, i 0-based.
RECURSIVE ScanFrom(_, _, _, _)
ScanFrom(lines, i, rd, last_pc) ==
    IF i >= Len(lines) THEN last_pc
    ELSE LET l == lines[i + 1]
         IN IF l.kind = "label" THEN last_pc
            ELSE ScanFrom(lines, i + 1, rd,
                   IF IsCandidate(l, rd) THEN l.pc ELSE last_pc)

\* objdump = [exists, lines]: the file, when it exists, and its lines.
parse_objdump_for_final_reg_pc(objdump, label, rd_num) ==
    IF ~objdump.exists THEN None
    ELSE LET start == ScanStart(objdump.lines, label)
         IN IF start < 0 THEN None
            ELSE ScanFrom(objdump.lines, start, rd_num, None)

(***************************************************************************)
(* Register checks, lines 231-252.                                         *)
(***************************************************************************)
VAL_T3 == Word(0, 0)

\* lines 232-238
REG_EXP ==
    << [label |-> "L_LI_T0",   rd |-> 5,  val |-> DATA_GDATA0],
       [label |-> "L_LI_T1",   rd |-> 6,  val |-> DATA_GDATA1],
       [label |-> "L_LI_T2",   rd |-> 7,  val |-> DATA_GBUF_W],
       [label |-> "L_LI_T3",   rd |-> 28, val |-> VAL_T3],
       [label |-> "L_LI_T0_1", rd |-> 5,  val |-> DATA_EXIT] >>

\* lines 239-245: final_pc_map as a function label -> pc over the labels found
final_pc_map_of(objdump) ==
    LET found == {k \in 1..Len(REG_EXP) :
                    parse_objdump_for_final_reg_pc(
                        objdump, REG_EXP[k].label, REG_EXP[k].rd) # None}
    IN [l \in {REG_EXP[k].label : k \in found} |->
          LET k == CHOOSE k \in found : REG_EXP[k].label = l
          IN parse_objdump_for_final_reg_pc(objdump, l, REG_EXP[k].rd)]

\* lines 240-243: one "Objdump PC not found" error per unresolved label
RECURSIVE ScanErrors(_, _)
ScanErrors(objdump, k) ==
    IF k > Len(REG_EXP) THEN <<>>
    ELSE (IF parse_objdump_for_final_reg_pc(
                 objdump, REG_EXP[k].label, REG_EXP[k].rd) = None
          THEN << Err("LabelNotFound", REG_EXP[k].label) >> ELSE <<>>)
         \o ScanErrors(objdump, k + 1)

\* line 251: the condition of any(...)
RegMatchesSkew(w, pc_req, e) ==
    w.pc \in {pc_req, pc_req + 2, pc_req + 4} /\ w.rd = e.rd /\ w.val = e.val
RegMatches(w, pc_req, e) ==
    w.pc = pc_req /\ w.rd = e.rd /\ w.val = e.val

\* lines 247-252
RECURSIVE RegErrors(_, _, _)
RegErrors(fpm, got_reg, k) ==
    IF k > Len(REG_EXP) THEN <<>>
    ELSE LET e == REG_EXP[k]
         IN (IF e.label \in DOMAIN fpm
                /\ ~\E i \in 1..Len(got_reg) :
                       RegMatches(got_reg[i], fpm[e.label], e)
             THEN << Err("MissingReg",
                         [pc |-> fpm[e.label], rd |-> e.rd, val |-> e.val,
                          label |-> e.label]) >>
             ELSE <<>>)
            \o RegErrors(fpm, got_reg, k + 1)

(***************************************************************************)
(* The environment: the artifacts main() reads and the simulator it runs.  *)
(* The nominal environment is a build of skiptrap whose run passes; the    *)
(* environments of the model deviate from it by at most MaxFaults edits.   *)
(***************************************************************************)
NominalNm ==
    << NmLine(512, "g_data0"), NmLine(516, "g_data1"), NmLine(520, "g_buf"),
       NmLine(768, "tohost"),
       NmLine(16, "L_LI_T0"), NmLine(24, "L_SW_GDATA0"),
       NmLine(28, "L_MISALIGNED_SW"),
       NmLine(32, "L_LI_T1"), NmLine(40, "L_SW_GDATA1"),
       NmLine(44, "L_LI_T2"), NmLine(52, "L_SW_GBUF"),
       NmLine(56, "L_LI_T3"), NmLine(60, "L_SH_GBUF_P2"),
       NmLine(64, "L_SB_GBUF_P1"),
       NmLine(68, "L_LI_T0_1"), NmLine(72, "L_SW_TOHOST") >>

NominalListing ==
    << LabelLine(16, "L_LI_T0"),
         Insn(16, M("lui"), "t0"), Insn(20, M("addi"), "t0"),
       LabelLine(24, "L_SW_GDATA0"), Insn(24, M("sw"), "t0"),
       LabelLine(28, "L_MISALIGNED_SW"), Insn(28, M("sw"), "t0"),
       LabelLine(32, "L_LI_T1"),
         Insn(32, M("lui"), "t1"), Insn(36, M("addi"), "t1"),
       LabelLine(40, "L_SW_GDATA1"), Insn(40, M("sw"), "t1"),
       LabelLine(44, "L_LI_T2"),
         Insn(44, M("lui"), "t2"), Insn(48, M("addi"), "t2"),
       LabelLine(52, "L_SW_GBUF"), Insn(52, M("sw"), "t2"),
       LabelLine(56, "L_LI_T3"), Insn(56, M("li"), "t3"),
       LabelLine(60, "L_SH_GBUF_P2"), Insn(60, M("sh"), "t2"),
       LabelLine(64, "L_SB_GBUF_P1"), Insn(64, M("sb"), "t2"),
       LabelLine(68, "L_LI_T0_1"), Insn(68, M("li"), "t0"),
       LabelLine(72, "L_SW_TOHOST"), Insn(72, M("sw"), "t0") >>

NominalMemw ==
    << MkEvent(24, 512, DATA_GDATA0, MASK_W),
       MkEvent(40, 516, DATA_GDATA1, MASK_W),
       MkEvent(52, 520, DATA_GBUF_W, MASK_W),
       MkEvent(60, 520, DATA_GBUF_H, MASK_H),
       MkEvent(64, 520, DATA_GBUF_B, MASK_B),
       MkEvent(72, 768, DATA_EXIT, MASK_W) >>

RegEv(p, r, v) == [pc |-> p, rd |-> r, val |-> v]
NominalReg ==
    << RegEv(16, 5, Word(4660, 20480)), RegEv(20, 5, DATA_GDATA0),
       RegEv(36, 6, DATA_GDATA1), RegEv(48, 7, DATA_GBUF_W),
       RegEv(56, 28, VAL_T3), RegEv(68, 5, DATA_EXIT) >>

NominalEnv ==
    [nm |-> NominalNm,
     objdump |-> [exists |-> TRUE, lines |-> NominalListing],
     runner_exists |-> TRUE,
     sim |-> [rc |-> 0, memw |-> NominalMemw, reg |-> NominalReg]]

\* The deviations, each an edit [k, a, b] of one artifact; a is a 1-based
\* position in the artifact as it is when the edit is applied (an edit whose
\* position is out of range changes nothing), b the edit's parameter.
F(k, a, b) == [k |-> k, a |-> a, b |-> b]

FaultList ==
    \* the nm file: a symbol's line absent (g_data0, tohost, L_SW_GDATA0,
    \* L_MISALIGNED_SW, L_SW_TOHOST), an address of 0, an unparsable
    \* address, a two-token line, a later duplicate with another address
    << F("nm_del", 1, 0), F("nm_del", 4, 0), F("nm_del", 6, 0),
       F("nm_del", 7, 0), F("nm_del", 16, 0),
       F("nm_zero", 6, 0), F("nm_badhex", 11, 0), F("nm_short", 13, 0),
       F("nm_dup", 26, 0),
    \* the listing: no file, a line absent (header of L_LI_T0, its addi,
    \* header of L_SW_GDATA0, header of L_LI_T3), a non-instruction line,
    \* a compressed store of t0 after the addi
       F("od_missing", 0, 0),
       F("od_del", 1, 0), F("od_del", 3, 0), F("od_del", 4, 0),
       F("od_del", 18, 0),
       F("od_other", 2, 0), F("od_cstore", 4, 22),
    \* the runner: absent, or exiting 3
       F("runner_missing", 0, 0), F("sim_rc", 3, 0),
    \* the memory-write stream: an event absent
       F("mw_del", 1, 0), F("mw_del", 2, 0), F("mw_del", 6, 0),
    \* two neighbours swapped
       F("mw_swap", 1, 0), F("mw_swap", 2, 0), F("mw_swap", 3, 0),
       F("mw_swap", 5, 0),
    \* an event's pc shifted
       F("mw_pc", 1, 1), F("mw_pc", 1, 2), F("mw_pc", 1, 4),
       F("mw_pc", 1, 6), F("mw_pc", 1, 8), F("mw_pc", 1, 10),
       F("mw_pc", 2, 1), F("mw_pc", 2, 2), F("mw_pc", 2, 8),
       F("mw_pc", 2, 10), F("mw_pc", 6, 1),
    \* a copy of an event put first, or last
       F("mw_dupfront", 1, 0), F("mw_dupfront", 2, 0),
       F("mw_dupfront", 6, 0),
       F("mw_dupend", 1, 0), F("mw_dupend", 2, 0),
    \* an event's data, mask or address changed
       F("mw_data", 1, 0), F("mw_mask", 1, 0), F("mw_mask", 4, 0),
       F("mw_addr", 1, 0),
    \* a write by the misaligned store, to g_data0 + 2
       F("mw_foreign", 2, 0),
    \* the register-write stream: an event absent, its pc shifted, its
    \* value or register changed
       F("rg_del", 1, 0), F("rg_del", 2, 0), F("rg_del", 3, 0),
       F("rg_del", 6, 0),
       F("rg_pc", 2, 2), F("rg_pc", 2, 4),
       F("rg_val", 2, 0), F("rg_rd", 3, 0) >>

InRange(seq, i) == i \in 1..Len(seq)

ApplyNm(nm, f) ==
    CASE f.k = "nm_del" /\ InRange(nm, f.a) -> RemoveAt(nm, f.a)
      [] f.k = "nm_zero" /\ InRange(nm, f.a) -> [nm EXCEPT ![f.a].addr = 0]
      [] f.k = "nm_badhex" /\ InRange(nm, f.a) -> [nm EXCEPT ![f.a].hex = FALSE]
      [] f.k = "nm_short" /\ InRange(nm, f.a) -> [nm EXCEPT ![f.a].parts = 2]
      [] f.k = "nm_dup" -> Append(nm, NmLine(f.a, "L_SW_GDATA0"))
      [] OTHER -> nm

ApplyListing(od, f) ==
    CASE f.k = "od_missing" -> [od EXCEPT !.exists = FALSE]
      [] f.k = "od_del" /\ InRange(od.lines, f.a) ->
            [od EXCEPT !.lines = RemoveAt(@, f.a)]
      [] f.k = "od_other" /\ InRange(od.lines, f.a) ->
            [od EXCEPT !.lines = InsertAt(@, f.a, OtherLine)]
      [] f.k = "od_cstore" /\ InRange(od.lines, f.a) ->
            [od EXCEPT !.lines = InsertAt(@, f.a, Insn(f.b, CM("swsp"), "t0"))]
      [] OTHER -> od

ApplyMemw(ws, f) ==
    CASE f.k = "mw_del" /\ InRange(ws, f.a) -> RemoveAt(ws, f.a)
      [] f.k = "mw_swap" /\ InRange(ws, f.a + 1) ->
            [ws EXCEPT ![f.a] = ws[f.a + 1], ![f.a + 1] = ws[f.a]]
      [] f.k = "mw_pc" /\ InRange(ws, f.a) -> [ws EXCEPT ![f.a].pc = @ + f.b]
      [] f.k = "mw_dupfront" /\ InRange(ws, f.a) -> <<ws[f.a]>> \o ws
      [] f.k = "mw_dupend" /\ InRange(ws, f.a) -> Append(ws, ws[f.a])
      [] f.k = "mw_data" /\ InRange(ws, f.a) ->
            [ws EXCEPT ![f.a].data = Word(@[1], @[2] + 1)]
      [] f.k = "mw_mask" /\ InRange(ws, f.a) -> [ws EXCEPT ![f.a].mask = 15 - @]
      [] f.k = "mw_addr" /\ InRange(ws, f.a) -> [ws EXCEPT ![f.a].addr = @ + 4]
      [] f.k = "mw_foreign" /\ InRange(ws, f.a) ->
            InsertAt(ws, f.a, MkEvent(28, 514, DATA_GDATA0, MASK_H))
      [] OTHER -> ws

ApplyReg(rs, f) ==
    CASE f.k = "rg_del" /\ InRange(rs, f.a) -> RemoveAt(rs, f.a)
      [] f.k = "rg_pc" /\ InRange(rs, f.a) -> [rs EXCEPT ![f.a].pc = @ + f.b]
      [] f.k = "rg_val" /\ InRange(rs, f.a) ->
            [rs EXCEPT ![f.a].val = Word(@[1], @[2] + 1)]
      [] f.k = "rg_rd" /\ InRange(rs, f.a) -> [rs EXCEPT ![f.a].rd = 10]
      [] OTHER -> rs

ApplyFault(e, f) ==
    [nm |-> ApplyNm(e.nm, f),
     objdump |-> ApplyListing(e.objdump, f),
     runner_exists |-> e.runner_exists /\ f.k # "runner_missing",
     sim |-> [rc |-> IF f.k = "sim_rc" THEN f.a ELSE e.sim.rc,
              memw |-> ApplyMemw(e.sim.memw, f),
              reg |-> ApplyReg(e.sim.reg, f)]]

\* Increasing sequences of at most k positions of FaultList.
RECURSIVE FaultChoices(_)
FaultChoices(k) ==
    IF k = 0 THEN {<<>>}
    ELSE LET P == FaultChoices(k - 1)
         IN P \cup UNION {{Append(s, j) : j \in (s[k - 1] + 1)..Len(FaultList)} :
                            s \in {t \in P : Len(t) = k - 1 /\ k > 1}}
              \cup {<<j>> : j \in {i \in 1..Len(FaultList) : k = 1}}

RECURSIVE EnvOf(_, _)
EnvOf(e, s) ==
    IF s = <<>> THEN e ELSE EnvOf(ApplyFault(e, FaultList[Head(s)]), Tail(s))

\* What the simulator writes to --log-file: its register and memory lines
\* (and a trap line); the checker never relates the two streams' order.
SimLog(sim) ==
    [i \in 1..Len(sim.reg) |-> RegLine(sim.reg[i])]
    \o << TrapLine >>
    \o [i \in 1..Len(sim.memw) |-> MemwLine(sim.memw[i])]

(***************************************************************************)
(* State.                                                                  *)
(***************************************************************************)
VARIABLES
    env,            \* the artifacts and the simulator (never changes)
    pc,             \* where main() is
    syms, pcs, EXP, \* lines 148-176
    tmp,            \* the temporary log file: "none", "exists", "deleted"
    logfile,        \* its lines
    rc,             \* the runner's return code
    got, got_reg,   \* lines 186-187
    errors, positions,
    final_pc_map,
    exitcode,       \* main()'s return value, None while running
    scan            \* the scanner checked on its own (SpecScan)

vars == <<env, pc, syms, pcs, EXP, tmp, logfile, rc, got, got_reg, errors,
          positions, final_pc_map, exitcode, scan>>

NoScan == [listing |-> <<>>, exists |-> FALSE, label |-> "", rd |-> 0,
           result |-> None, done |-> FALSE]
Empty == <<>>

Init ==
    /\ \E s \in FaultChoices(MaxFaults) :
          env = EnvOf(NominalEnv, s)
    /\ pc = "start"
    /\ syms = Empty /\ pcs = Empty /\ EXP = Empty
    /\ tmp = "none" /\ logfile = Empty
    /\ rc = None
    /\ got = Empty /\ got_reg = Empty
    /\ errors = Empty /\ positions = Empty
    /\ final_pc_map = Empty
    /\ exitcode = None
    /\ scan = NoScan

\* lines 143-146
RunnerMissing ==
    /\ pc = "start"
    /\ ~env.runner_exists
    /\ pc' = "exit" /\ exitcode' = 2
    /\ UNCHANGED <<env, syms, pcs, EXP, tmp, logfile, rc, got, got_reg, errors,
                   positions, final_pc_map, scan>>

\* lines 148-152, a data symbol is absent: KeyError, the interpreter prints
\* a traceback and main() never returns.
ResolveCrash ==
    /\ pc = "start"
    /\ env.runner_exists
    /\ KeyErrorRaised(parse_nm(env.nm))
    /\ syms' = parse_nm(env.nm)
    /\ pc' = "crashed"
    /\ UNCHANGED <<env, pcs, EXP, tmp, logfile, rc, got, got_reg, errors,
                   positions, final_pc_map, exitcode, scan>>

\* lines 148-176
Resolve ==
    /\ pc = "start"
    /\ env.runner_exists
    /\ ~KeyErrorRaised(parse_nm(env.nm))
    /\ syms' = parse_nm(env.nm)
    /\ pcs' = MkPcs(syms')
    /\ EXP' = MkEXP(syms', pcs')
    /\ pc' = "mktemp"
    /\ UNCHANGED <<env, tmp, logfile, rc, got, got_reg, errors, positions,
                   final_pc_map, exitcode, scan>>

\* lines 178-179
CreateLog ==
    /\ pc = "mktemp"
    /\ tmp' = "exists" /\ logfile' = <<>>
    /\ pc' = "run"
    /\ UNCHANGED <<env, syms, pcs, EXP, rc, got, got_reg, errors, positions,
                   final_pc_map, exitcode, scan>>

\* lines 181-184, the runner exits non-zero
RunFailUnlink ==
    /\ pc = "run"
    /\ env.sim.rc # 0
    /\ logfile' = SimLog(env.sim)
    /\ rc' = env.sim.rc
    /\ tmp' = "deleted"
    /\ exitcode' = rc' /\ pc' = "exit"
    /\ UNCHANGED <<env, syms, pcs, EXP, got, got_reg, errors, positions,
                   final_pc_map, scan>>
RunFail ==
    /\ pc = "run"
    /\ env.sim.rc # 0
    /\ logfile' = SimLog(env.sim)
    /\ rc' = env.sim.rc
    /\ exitcode' = rc' /\ pc' = "exit"
    /\ UNCHANGED <<env, syms, pcs, EXP, tmp, got, got_reg, errors, positions,
                   final_pc_map, scan>>

\* lines 181-187, the runner exits 0 and the log is parsed
RunAndParse ==
    /\ pc = "run"
    /\ env.sim.rc = 0
    /\ logfile' = SimLog(env.sim)
    /\ rc' = 0
    /\ got' = parse_memw(logfile')
    /\ got_reg' = parse_reg(logfile')
    /\ pc' = "match"
    /\ UNCHANGED <<env, syms, pcs, EXP, tmp, errors, positions, final_pc_map,
                   exitcode, scan>>

\* lines 189-208
Match ==
    /\ pc = "match"
    /\ LET st == MatchLoop(EXP, got, 0, [errors |-> <<>>, positions |-> <<>>])
       IN errors' = st.errors /\ positions' = st.positions
    /\ pc' = "order"
    /\ UNCHANGED <<env, syms, pcs, EXP, tmp, logfile, rc, got, got_reg,
                   final_pc_map, exitcode, scan>>

\* lines 210-213
Order ==
    /\ pc = "order"
    /\ errors' = errors \o OrderErrors(EXP, errors, positions)
    /\ pc' = "unique"
    /\ UNCHANGED <<env, syms, pcs, EXP, tmp, logfile, rc, got, got_reg,
                   positions, final_pc_map, exitcode, scan>>

\* lines 216-218
UniqueGated ==
    /\ pc = "unique"
    /\ errors' = IF errors = <<>> THEN UniqueErrors(got, syms["g_data0"])
                 ELSE errors
    /\ pc' = "negative"
    /\ UNCHANGED <<env, syms, pcs, EXP, tmp, logfile, rc, got, got_reg,
                   positions, final_pc_map, exitcode, scan>>
Unique ==
    /\ pc = "unique"
    /\ errors' = errors \o UniqueErrors(got, syms["g_data0"])
    /\ pc' = "negative"
    /\ UNCHANGED <<env, syms, pcs, EXP, tmp, logfile, rc, got, got_reg,
                   positions, final_pc_map, exitcode, scan>>

\* lines 221-222
Negative ==
    /\ pc = "negative"
    /\ errors' = errors \o NegativeErrors(got, pcs)
    /\ pc' = "memreport"
    /\ UNCHANGED <<env, syms, pcs, EXP, tmp, logfile, rc, got, got_reg,
                   positions, final_pc_map, exitcode, scan>>

\* lines 224-229
MemFail ==
    /\ pc = "memreport"
    /\ errors # <<>>
    /\ exitcode' = 1 /\ pc' = "exit"
    /\ UNCHANGED <<env, syms, pcs, EXP, tmp, logfile, rc, got, got_reg, errors,
                   positions, final_pc_map, scan>>

\* lines 224, 231-245
RegScan ==
    /\ pc = "memreport"
    /\ errors = <<>>
    /\ final_pc_map' = final_pc_map_of(env.objdump)
    /\ errors' = errors \o ScanErrors(env.objdump, 1)
    /\ pc' = "regcheck"
    /\ UNCHANGED <<env, syms, pcs, EXP, tmp, logfile, rc, got, got_reg,
                   positions, exitcode, scan>>

\* lines 247-252
RegCheck ==
    /\ pc = "regcheck"
    /\ errors' = errors \o RegErrors(final_pc_map, got_reg, 1)
    /\ pc' = "regreport"
    /\ UNCHANGED <<env, syms, pcs, EXP, tmp, logfile, rc, got, got_reg,
                   positions, final_pc_map, exitcode, scan>>

\* lines 254-259
RegFail ==
    /\ pc = "regreport"
    /\ errors # <<>>
    /\ exitcode' = 1 /\ pc' = "exit"
    /\ UNCHANGED <<env, syms, pcs, EXP, tmp, logfile, rc, got, got_reg, errors,
                   positions, final_pc_map, scan>>

\* lines 261-263
Pass ==
    /\ pc = "regreport"
    /\ errors = <<>>
    /\ tmp' = "deleted"
    /\ exitcode' = 0 /\ pc' = "exit"
    /\ UNCHANGED <<env, syms, pcs, EXP, logfile, rc, got, got_reg, errors,
                   positions, final_pc_map, scan>>

Next ==
    \/ RunnerMissing \/ ResolveCrash \/ Resolve \/ CreateLog
    \/ RunFail \/ RunAndParse \/ Match \/ Order \/ Unique \/ Negative
    \/ MemFail \/ RegScan \/ RegCheck \/ RegFail \/ Pass

Spec == Init /\ [][Next]_vars

(***************************************************************************)
(* Properties.                                                             *)
(***************************************************************************)
HasErr(k) == \E i \in 1..Len(errors) : errors[i].kind = k
CountErr(k) == Cardinality({i \in 1..Len(errors) : errors[i].kind = k})
HasErrRef(k, r) ==
    \E i \in 1..Len(errors) : errors[i].kind = k /\ errors[i].ref = r

\* main() got past the named stage (the runner exited 0).
Parsed == rc = 0
MatchDone == Parsed /\ pc # "match"
OrderDone == MatchDone /\ pc # "order"
UniqueDone == OrderDone /\ pc # "unique"
NegativeDone == UniqueDone /\ pc # "negative"

Shifted(e, off) == [e EXCEPT !.pc = @ + off]
Tolerated == {0, 2, 4, 6, 8}
\* some observed event equals e in addr/data/mask with pc = e.pc + off
SeenAt(e, off) == \E i \in 1..Len(got) : got[i] = Shifted(e, off)
Satisfied(e) == \E off \in Tolerated : SeenAt(e, off)
Resolved(e) == e.pc # None

\* C1: once matching has run, an expected event with a resolved pc has no
\* "Missing write" error iff the observed stream holds an event equal to
\* it in addr, data and mask whose pc is its pc + 0, 2, 4, 6 or 8.
C1_SkewMatching ==
    MatchDone =>
        \A k \in 1..Len(EXP) :
            Resolved(EXP[k]) =>
                (~HasErrRef("MissingWrite", EXP[k]) <=> Satisfied(EXP[k]))

\* C1 witness: one expected event is accepted at pc + 8 only, another is
\* seen at pc + 1 only and reported missing.
C1_Witness ==
    /\ MatchDone
    /\ \E k \in 1..Len(EXP) :
          /\ Resolved(EXP[k]) /\ SeenAt(EXP[k], 8) /\ ~SeenAt(EXP[k], 0)
          /\ ~HasErrRef("MissingWrite", EXP[k])
    /\ \E k \in 1..Len(EXP) :
          /\ Resolved(EXP[k]) /\ SeenAt(EXP[k], 1)
          /\ HasErrRef("MissingWrite", EXP[k])

\* position[k] as the claim defines it: the index (0-based) of the first
\* observed event matching expected event k at the lowest matching offset.
LowestOff(e) == Min({off \in Tolerated : SeenAt(e, off)})
PositionOf(k) ==
    Min({i \in 1..Len(got) : got[i] = Shifted(EXP[k + 1], LowestOff(EXP[k + 1]))}) - 1
MatchingClean == ~HasErr("SymbolNotFound") /\ ~HasErr("MissingWrite")
SwappedE1E2 == [EXP EXCEPT ![2] = EXP[3], ![3] = EXP[2]]

\* C2: when matching recorded no error, "Order mismatch" is recorded for
\* the pair (i, i+1) exactly when position[i] >= position[i+1]; a trace
\* that is the expected sequence with the events of E1 and E2 swapped
\* gets exactly one order mismatch, for the pair (1, 2).
C2_OrderCheck ==
    (OrderDone /\ MatchingClean) =>
        /\ \A i \in 0..(Len(EXP) - 2) :
              HasErrRef("OrderMismatch", i) <=> PositionOf(i) >= PositionOf(i + 1)
        /\ CountErr("OrderMismatch") =
              Cardinality({i \in 0..(Len(EXP) - 2) : HasErrRef("OrderMismatch", i)})
        /\ got = SwappedE1E2 =>
              /\ CountErr("OrderMismatch") = 1
              /\ HasErrRef("OrderMismatch", 1)

\* C2 witness: the swapped trace, checked.
C2_Witness ==
    /\ OrderDone /\ MatchingClean
    /\ got = SwappedE1E2
    /\ HasErrRef("OrderMismatch", 1)

G0Writes == {i \in 1..Len(got) : got[i].addr = syms["g_data0"]}
G0Good ==
    /\ Cardinality(G0Writes) = 1
    /\ \A i \in G0Writes : got[i].data = Word(4660, 22136) /\ got[i].mask = 15

\* C3: once the uniqueness check has run, there is no spurious-write error
\* iff the stream holds exactly one write to g_data0 and it carries data
\* 0x12345678 and mask 0xF; otherwise there is exactly one such error.
C3_Uniqueness ==
    UniqueDone =>
        CountErr("SpuriousWrite") = (IF G0Good THEN 0 ELSE 1)

\* C3 witness: g_data0 written twice with the right data and mask.
C3_Witness ==
    /\ UniqueDone
    /\ Cardinality(G0Writes) = 2
    /\ \A i \in G0Writes : got[i].data = Word(4660, 22136) /\ got[i].mask = 15
    /\ CountErr("SpuriousWrite") = 1

MisPc == pcs["L_MISALIGNED_SW"]
MisHit == MisPc # None /\ \E i \in 1..Len(got) : got[i].pc = MisPc

\* C4: once the negative check has run, an unexpected-write error is
\* recorded iff some observed event has the pc of L_MISALIGNED_SW, and
\* such a run does not pass, also when that event satisfies an expected
\* event through the skew tolerance.
C4_NegativeCheck ==
    NegativeDone =>
        /\ CountErr("UnexpectedTrapWrite") = (IF MisHit THEN 1 ELSE 0)
        /\ MisHit => exitcode # 0

\* C4 witness: an event at the misaligned pc satisfies an expected event
\* (the same addr/data/mask, pc within the tolerance) and the run failed.
C4_Witness ==
    /\ NegativeDone /\ pc = "exit" /\ exitcode = 1
    /\ \E i \in 1..Len(got), k \in 1..Len(EXP) :
          /\ got[i].pc = MisPc
          /\ Resolved(EXP[k])
          /\ \E off \in Tolerated : got[i] = Shifted(EXP[k], off)
          /\ ~HasErrRef("MissingWrite", EXP[k])
    /\ HasErr("UnexpectedTrapWrite")

EarlyErr == HasErr("SymbolNotFound") \/ HasErr("MissingWrite") \/ HasErr("OrderMismatch")
LateErr == HasErr("SpuriousWrite") \/ HasErr("UnexpectedTrapWrite")
RegErr == HasErr("LabelNotFound") \/ HasErr("MissingReg")

\* C5 as stated: a report with a symbol-not-found, missing-write or
\* order-mismatch error never also holds a spurious-write or
\* unexpected-write error.
C5_AsStated == ~(EarlyErr /\ LateErr)

\* C5 amended: only the order check and the register stage are gated.  An
\* order mismatch never comes with a symbol-not-found or missing-write
\* error and a register-stage error never comes with a memory-stage error;
\* the uniqueness and negative checks are evaluated whatever the earlier
\* steps recorded.
C5_Gating ==
    /\ ~(HasErr("OrderMismatch") /\ (HasErr("SymbolNotFound") \/ HasErr("MissingWrite")))
    /\ ~(RegErr /\ (EarlyErr \/ LateErr))
    /\ (NegativeDone /\ EarlyErr) =>
          /\ HasErr("SpuriousWrite") <=> ~G0Good
          /\ HasErr("UnexpectedTrapWrite") <=> MisHit

\* C5 witness: a missing write and a spurious write in one report.
C5_Witness ==
    /\ pc = "exit" /\ exitcode = 1
    /\ HasErr("MissingWrite") /\ HasErr("SpuriousWrite")

StoreLabels == {"L_SW_GDATA0", "L_SW_GDATA1", "L_SW_GBUF", "L_SH_GBUF_P2",
                "L_SB_GBUF_P1", "L_SW_TOHOST"}
Referenced == {"tohost", "g_data0", "g_data1", "g_buf", "L_MISALIGNED_SW"}
              \cup StoreLabels
AbsentSym(n) ==
    \A i \in 1..Len(env.nm) :
        env.nm[i].name = n => (env.nm[i].parts < 3 \/ ~env.nm[i].hex)

\* C6 as stated: whichever referenced symbol is absent from the symbol
\* table, main() does not crash, and a run whose simulator exited 0 ends
\* in Fail with a symbol-not-found error in its report.
C6_AsStated ==
    \A n \in Referenced :
        AbsentSym(n) =>
            /\ pc # "crashed"
            /\ (pc = "exit" /\ env.runner_exists /\ env.sim.rc = 0) =>
                  (exitcode = 1 /\ HasErr("SymbolNotFound"))

ScanPc(k) ==
    parse_objdump_for_final_reg_pc(env.objdump, REG_EXP[k].label, REG_EXP[k].rd)
MissingRegFor(l) ==
    \E i \in 1..Len(errors) : errors[i].kind = "MissingReg" /\ errors[i].ref.label = l
ExactReg(k) ==
    \E i \in 1..Len(got_reg) :
        got_reg[i] = [pc |-> ScanPc(k), rd |-> REG_EXP[k].rd, val |-> REG_EXP[k].val]
NearReg(k) ==
    \E i \in 1..Len(got_reg), d \in {2, 4, 6, 8} :
        got_reg[i] = [pc |-> ScanPc(k) + d, rd |-> REG_EXP[k].rd, val |-> REG_EXP[k].val]

\* C7: register-stage errors occur only in reports without memory-stage
\* errors; once the register checks have run, a check whose label the scan
\* does not resolve has a label-not-found error (and no other), and a
\* check with a resolved pc has a missing-register-write error iff no
\* observed register write has exactly that pc, rd and val.
C7_RegisterChecks ==
    /\ RegErr => (~EarlyErr /\ ~LateErr)
    /\ pc = "regreport" =>
          \A k \in 1..Len(REG_EXP) :
              IF ScanPc(k) = None
              THEN /\ HasErrRef("LabelNotFound", REG_EXP[k].label)
                   /\ ~MissingRegFor(REG_EXP[k].label)
              ELSE /\ ~HasErrRef("LabelNotFound", REG_EXP[k].label)
                   /\ MissingRegFor(REG_EXP[k].label) <=> ~ExactReg(k)

\* C7 witness: one label is not found, and another check, whose value was
\* written at the resolved pc + 2 only, is reported missing.
C7_Witness ==
    /\ pc = "regreport"
    /\ \E k \in 1..Len(REG_EXP) : ScanPc(k) = None
    /\ \E k \in 1..Len(REG_EXP) :
          /\ ScanPc(k) # None /\ NearReg(k) /\ ~ExactReg(k)
          /\ MissingRegFor(REG_EXP[k].label)

Created == env.runner_exists /\ pc \notin {"start", "crashed", "mktemp"}

\* C8: the log file, once created, is deleted iff main() returns 0; when
\* the simulator exits non-zero nothing is parsed or verified, main()
\* returns the simulator's code and the file remains.
C8_LogLifecycle ==
    /\ tmp = (IF ~Created THEN "none"
              ELSE IF pc = "exit" /\ exitcode = 0 THEN "deleted" ELSE "exists")
    /\ (pc = "exit" /\ Created /\ env.sim.rc # 0) =>
          /\ exitcode = env.sim.rc
          /\ got = <<>> /\ got_reg = <<>> /\ errors = <<>>

\* C8 witness: the simulator exited non-zero and the file is still there.
C8_Witness ==
    /\ pc = "exit" /\ Created /\ exitcode = 3 /\ tmp = "exists"

AllResolved == \A k \in 1..Len(EXP) : Resolved(EXP[k])
Fits(w, e) == \E off \in Tolerated : w = Shifted(e, off)
\* the stream holds, from position from on and at strictly increasing
\* positions, events matching EXP[k], EXP[k+1], ...
RECURSIVE ChainFrom(_, _)
ChainFrom(k, from) ==
    \E j \in from..Len(got) :
        /\ Fits(got[j], EXP[k])
        /\ (k = Len(EXP) \/ ChainFrom(k + 1, j + 1))
InOrderPresent == AllResolved /\ ChainFrom(1, 1)
MatchedOnce ==
    \A k \in 1..Len(EXP) :
        Cardinality({j \in 1..Len(got) : Fits(got[j], EXP[k])}) = 1

ScanShapes ==
    { <<M("lui"), "t0">>, <<M("ori"), "x5">>, <<M("addi"), "t1">>,
      <<M("sw"), "t0">>, <<M("beq"), "x5">>, <<M("lw"), "t0">>,
      <<CM("li"), "t0">>, <<CM("swsp"), "x5">>, <<CM("bnez"), "t0">> }

LineChoices(i) ==
    {LabelLine(2 * i, "L_LI_T0"), LabelLine(2 * i, "L_NEXT"), OtherLine}
    \cup {Insn(2 * i, sh[1], sh[2]) : sh \in ScanShapes}

RECURSIVE Listings(_)
Listings(n) ==
    IF n = 0 THEN {<<>>}
    ELSE LET P == Listings(n - 1)
         IN P \cup UNION {{Append(l, x) : x \in LineChoices(n)} :
                            l \in {t \in P : Len(t) = n - 1}}

InitScan ==
    /\ \E l \in Listings(MaxLines), ex \in BOOLEAN,
          lb \in {"L_LI_T0", "L_LI_T1"}, r \in {5, 6} :
          scan = [listing |-> l, exists |-> ex, label |-> lb, rd |-> r,
                  result |-> None, done |-> FALSE]
    /\ env = NominalEnv
    /\ pc = "scan"
    /\ syms = Empty /\ pcs = Empty /\ EXP = Empty
    /\ tmp = "none" /\ logfile = Empty
    /\ rc = None
    /\ got = Empty /\ got_reg = Empty
    /\ errors = Empty /\ positions = Empty
    /\ final_pc_map = Empty
    /\ exitcode = None

\* lines 78-123, one call
ScanFind ==
    /\ pc = "scan"
    /\ ~scan.done
    /\ scan' = [scan EXCEPT
                  !.result = parse_objdump_for_final_reg_pc(
                                 [exists |-> scan.exists, lines |-> scan.listing],
                                 scan.label, scan.rd),
                  !.done = TRUE]
    /\ UNCHANGED <<env, pc, syms, pcs, EXP, tmp, logfile, rc, got, got_reg,
                   errors, positions, final_pc_map, exitcode>>

NextScan == ScanFind

SpecScan == InitScan /\ [][NextScan]_vars

\* The scan's result as the claim words it.  A compressed mnemonic counts
\* as a variant of a register-producing operation unless it is a store or
\* a conditional branch; the register is denoted by xN or by the alias the
\* scanner's table gives it.
CompressedStoreBranch == {"sw", "swsp", "sb", "sh", "beqz", "bnez"}
IsStoreOrBranch(m) ==
    IF m[1] THEN m[2] \in CompressedStoreBranch \cup StoreBranchMnems
    ELSE m[2] \in StoreBranchMnems
Denotes(op0, rd) ==
    \/ rd = 5 /\ op0 \in {"x5", "t0"}
    \/ rd = 6 /\ op0 \in {"x6", "t1"}
    \/ rd = 7 /\ op0 \in {"x7", "t2"}
    \/ rd = 28 /\ op0 \in {"x28", "t3"}
CandidateWrite(l, rd) ==
    /\ l.kind = "insn"
    /\ Denotes(l.op0, rd)
    /\ ~IsStoreOrBranch(l.mnem)
    /\ (l.mnem[1] \/ l.mnem[2] \in write_mnems)
LastWritePc(ex, listing, label, rd) ==
    LET hdrs == {i \in 1..Len(listing) :
                    listing[i].kind = "label" /\ listing[i].name = label}
    IN IF ~ex \/ hdrs = {} THEN None
       ELSE LET h == Min(hdrs)
                later == {j \in (h + 1)..Len(listing) : listing[j].kind = "label"}
                stop == IF later = {} THEN Len(listing) + 1 ELSE Min(later)
                cands == {j \in (h + 1)..(stop - 1) : CandidateWrite(listing[j], rd)}
            IN IF cands = {} THEN None
               ELSE listing[CHOOSE j \in cands : \A i \in cands : i <= j].pc

\* C9 as stated: the scanner returns the pc of the last candidate write of
\* the label's block, absent when there is no label or no candidate; a
\* store or conditional branch, compressed or not, is never a candidate.
C9_AsStated ==
    scan.done =>
        scan.result = LastWritePc(scan.exists, scan.listing, scan.label, scan.rd)

====
